---- MODULE Spec2Model ----
(***************************************************************************)
(* Model of Tools/generate_updatable_model.py: the script that probes for  *)
(* the dataset, builds the two-layer perceptron with the coremltools       *)
(* NeuralNetworkBuilder, marks it updatable, patches the protobuf spec and *)
(* saves it to VibeClassifier.mlmodel.                                     *)
(*                                                                         *)
(* The script is straight-line code; pc is the statement about to run.     *)
(* The coremltools builder is a library outside the repository.  What the  *)
(* script itself guards against (lines 197-235) is the builder leaving     *)
(* isUpdatable unset, the loss target unset and the label missing from the *)
(* training inputs, so the two builder calls whose result the script       *)
(* re-checks (make_updatable, set_categorical_cross_entropy_loss) choose   *)
(* their outcome nondeterministically; every library call may also raise.  *)
(***************************************************************************)
EXTENDS Integers, Sequences, FiniteSets, TLC

VARIABLES
    fs,            \* the candidate dataset paths that exist on disk
    pc,            \* the statement about to run
    p,             \* the loop variable of `for p in possible_paths` (an index)
    csv_path,      \* index into possible_paths, or NoPath
    df,            \* the loaded data frame, or None
    builder,       \* the module-level builder (lines 39-51), or None
    num_classes,   \* line 82
    class_labels,  \* line 83
    nn_builder,    \* the builder local to create_updatable_model: its .spec
    spec,          \* the module-level spec (line 246), or None
    outFile,       \* what a completed save_spec of this run wrote to output_path
    stdout,        \* the lines printed so far
    error          \* why the run stopped early, or "none"

vars == <<fs, pc, p, csv_path, df, builder, num_classes, class_labels,
          nn_builder, spec, outFile, stdout, error>>

\* Python's None, for the variables that hold objects
None == [kind |-> "None"]

\* line 10: csv_path = None, as an index no candidate has
NoPath == 0

-----------------------------------------------------------------------------
(* Bounds of the model *)

\* how many of the inference inputs the builder may re-declare as training inputs
MaxCopied == 1

\* how many distinct labels the target column of a dataset may hold
MaxDistinct == 3

-----------------------------------------------------------------------------
(* Program constants *)

possible_paths == <<"vibe_weighted_dataset.csv",
                    "DataCollector/Tools/vibe_weighted_dataset.csv">>

feature_names == <<"timestamp", "distance", "activity", "startTime",
                   "duration", "hour", "dayOfWeek">>

target_name == "vibe"

output_path == "VibeClassifier.mlmodel"

\* input_features: (name, Array(1)) for each of the seven inputs
input_features ==
    <<[name |-> "timestamp", shape |-> 1],
      [name |-> "distance",  shape |-> 1],
      [name |-> "activity",  shape |-> 1],
      [name |-> "startTime", shape |-> 1],
      [name |-> "duration",  shape |-> 1],
      [name |-> "hour",      shape |-> 1],
      [name |-> "dayOfWeek", shape |-> 1]>>

\* the 'vibe' column holds integers 0-7 (SensorData.Vibe)
NumVibe == 8

HiddenWidth == 64

NumFeatures == 7

Epochs == 10

-----------------------------------------------------------------------------
(* Helpers *)

RECURSIVE Insert(_, _)
Insert(x, s) ==
    IF s = <<>> THEN <<x>>
    ELSE IF x <= Head(s) THEN <<x>> \o s
    ELSE <<Head(s)>> \o Insert(x, Tail(s))

\* list.sort() / sorted(): insertion sort, ascending
RECURSIVE Sort(_)
Sort(s) == IF s = <<>> THEN <<>> ELSE Insert(Head(s), Sort(Tail(s)))

\* Series.unique(): the distinct values, in order of first appearance; the
\* data frame is kept as the set of distinct values of each column, and the
\* order of appearance is any order
RECURSIVE Unique(_)
Unique(S) ==
    IF S = {} THEN <<>>
    ELSE LET x == CHOOSE y \in S : \A z \in S : z <= y
         IN  <<x>> \o Unique(S \ {x})

Range(s) == {s[i] : i \in 1..Len(s)}

Names(s) == [i \in 1..Len(s) |-> s[i].name]

\* str() of a label of the enum 0-7
ToStr(n) == <<"0", "1", "2", "3", "4", "5", "6", "7">>[n + 1]

print(text, arg) == Append(stdout, [text |-> text, arg |-> arg])

-----------------------------------------------------------------------------
(* The environment: what is on disk, what the CSV holds *)

\* a loaded data frame: whether it has the target column, and the distinct
\* values of that column
Datasets ==
    {[hasTarget |-> FALSE, vibe |-> {}]} \cup
    {[hasTarget |-> TRUE, vibe |-> S] :
        S \in {T \in SUBSET (0..(NumVibe - 1)) : Cardinality(T) <= MaxDistinct}}

\* nothing written to output_path by this run
NoFile == [kind |-> "NoFile"]

Init ==
    /\ fs \in SUBSET (1..Len(possible_paths))
    /\ pc = "probe"
    /\ p = 1
    /\ csv_path = NoPath
    /\ df = None
    /\ builder = None
    /\ num_classes = None
    /\ class_labels = None
    /\ nn_builder = None
    /\ spec = None
    /\ outFile = NoFile
    /\ stdout = <<>>
    /\ error = "none"

-----------------------------------------------------------------------------
(* Lines 9-21: find and load the dataset *)

\* os.path.exists(p)
exists(i) == i \in fs

\* faulty variant: the loop has no break, so the last existing candidate wins
Probe_NoBreak ==
    /\ pc = "probe"
    /\ IF p > Len(possible_paths)
       THEN /\ pc' = "check_path"
            /\ UNCHANGED <<p, csv_path>>
       ELSE /\ csv_path' = IF exists(p) THEN p ELSE csv_path
            /\ p' = p + 1
            /\ UNCHANGED pc
    /\ UNCHANGED <<fs, df, builder, num_classes, class_labels, nn_builder,
                   spec, outFile, stdout, error>>

\* lines 11-14: one iteration of the loop, or leaving it when exhausted
Probe ==
    /\ pc = "probe"
    /\ IF p > Len(possible_paths)
       THEN /\ pc' = "check_path"
            /\ UNCHANGED <<p, csv_path>>
       ELSE IF exists(p)
       THEN /\ csv_path' = p
            /\ pc' = "check_path"
            /\ UNCHANGED p
       ELSE /\ p' = p + 1
            /\ UNCHANGED <<pc, csv_path>>
    /\ UNCHANGED <<fs, df, builder, num_classes, class_labels, nn_builder,
                   spec, outFile, stdout, error>>

\* lines 16-18: exit(1) when no candidate exists
CheckPath ==
    /\ pc = "check_path"
    /\ IF csv_path = NoPath
       THEN /\ stdout' = print("Error: Could not find dataset", "possible_paths")
            /\ error' = "DatasetNotFound"
            /\ pc' = "Failed"
       ELSE /\ pc' = "read_csv"
            /\ UNCHANGED <<stdout, error>>
    /\ UNCHANGED <<fs, p, csv_path, df, builder, num_classes, class_labels,
                   nn_builder, spec, outFile>>

\* lines 20-21: pd.read_csv(csv_path) returns the file's content
ReadCsv ==
    /\ pc = "read_csv"
    /\ \E d \in Datasets : df' = d
    /\ stdout' = print("Loading data from", possible_paths[csv_path])
    /\ pc' = "schema"
    /\ UNCHANGED <<fs, p, csv_path, builder, num_classes, class_labels,
                   nn_builder, spec, outFile, error>>

\* line 21: pd.read_csv raises (unreadable or malformed file)
ReadCsvRaises ==
    /\ pc = "read_csv"
    /\ stdout' = print("Loading data from", possible_paths[csv_path])
    /\ error' = "LoadError"
    /\ pc' = "Failed"
    /\ UNCHANGED <<fs, p, csv_path, df, builder, num_classes, class_labels,
                   nn_builder, spec, outFile>>

\* lines 29-33
Schema ==
    /\ pc = "schema"
    /\ stdout' = Append(print("Features", "feature_names"),
                        [text |-> "Target", arg |-> target_name])
    /\ pc' = "knn_builder"
    /\ UNCHANGED <<fs, p, csv_path, df, builder, num_classes, class_labels,
                   nn_builder, spec, outFile, error>>

\* lines 39-51: the k-NN builder and the metadata set on it
KnnBuilder ==
    /\ pc = "knn_builder"
    /\ builder' = [kind |-> "KNearestNeighborsClassifierBuilder",
                   number_of_dimensions |-> Len(feature_names),
                   author |-> "Vibe Assistant",
                   license |-> "MIT",
                   description |-> "Updatable k-NN Classifier for Vibe Prediction"]
    /\ pc' = "num_classes"
    /\ UNCHANGED <<fs, p, csv_path, df, num_classes, class_labels,
                   nn_builder, spec, outFile, stdout, error>>

\* lines 82-83: df[target_name] raises KeyError when the column is missing
CountClasses ==
    /\ pc = "num_classes"
    /\ IF df.hasTarget
       THEN /\ num_classes' = Cardinality(df.vibe)
            /\ class_labels' =
                   LET u == Sort(Unique(df.vibe))
                   IN  [i \in 1..Len(u) |-> ToStr(u[i])]
            /\ pc' = "generate"
            /\ UNCHANGED error
       ELSE /\ error' = "KeyError"
            /\ pc' = "Failed"
            /\ UNCHANGED <<num_classes, class_labels>>
    /\ UNCHANGED <<fs, p, csv_path, df, builder, nn_builder, spec, outFile,
                   stdout>>

-----------------------------------------------------------------------------
(* Lines 93-182: create_updatable_model builds the graph *)

\* a layer entry of the spec; the fields a kind does not use keep their
\* protobuf defaults
Layer(name, kind, input, output) ==
    [name |-> name, kind |-> kind, input |-> input, output |-> output,
     input_channels |-> 0, output_channels |-> 0, W |-> 0, b |-> 0,
     has_bias |-> FALSE, isUpdatable |-> FALSE, target |-> ""]

\* line 121-122
class_labels_int == Sort(<<0, 1, 2, 3, 4, 5, 6, 7>>)

\* lines 107-109
output_features_spec ==
    <<[name |-> "classProbability", type |-> "dictionaryType", key |-> "int64KeyType"]>>

\* lines 245, 111-115: NeuralNetworkBuilder(input_features, output_features_spec,
\* mode="classifier") starts an empty classifier spec
NeuralNetworkBuilder(inputs, outputs) ==
    [mode |-> "classifier",
     input |-> inputs,
     output |-> outputs,
     layers |-> <<>>,
     classLabels |-> <<>>,
     predictedFeatureName |-> "",
     isUpdatable |-> FALSE,
     lossLayers |-> <<>>,
     optimizer |-> None,
     epochs |-> 0,
     trainingInput |-> <<>>,
     author |-> "", license |-> "", description |-> ""]

NewBuilder ==
    /\ pc = "generate"
    /\ stdout' = print("Generating updatable model...", "")
    /\ nn_builder' = NeuralNetworkBuilder(input_features, output_features_spec)
    /\ pc' = "concat"
    /\ UNCHANGED <<fs, p, csv_path, df, builder, num_classes, class_labels,
                   spec, outFile, error>>

\* builder.add_*: append one layer to the network
AddLayer(b, layer) == [b EXCEPT !.layers = Append(@, layer)]

\* lines 130-135
concat_inputs == Layer("concat_inputs", "CONCAT", feature_names, "features_vector")

AddConcat ==
    /\ pc = "concat"
    /\ nn_builder' = AddLayer(nn_builder, concat_inputs)
    /\ pc' = "fc1"
    /\ UNCHANGED <<fs, p, csv_path, df, builder, num_classes, class_labels,
                   spec, outFile, stdout, error>>

\* np.random.normal(0, 0.1, (rows, cols)).flatten(): rows * cols samples; the
\* model keeps the number of elements, not the sampled values
Flatten(rows, cols) == rows * cols

\* np.zeros(n)
Zeros(n) == n

\* lines 139-150
fc1 ==
    [Layer("fc1", "innerProduct", <<"features_vector">>, "hidden1") EXCEPT
        !.W = Flatten(HiddenWidth, NumFeatures),
        !.b = Zeros(HiddenWidth),
        !.input_channels = NumFeatures,
        !.output_channels = HiddenWidth,
        !.has_bias = TRUE]

AddFc1 ==
    /\ pc = "fc1"
    /\ nn_builder' = AddLayer(nn_builder, fc1)
    /\ pc' = "relu1"
    /\ UNCHANGED <<fs, p, csv_path, df, builder, num_classes, class_labels,
                   spec, outFile, stdout, error>>

\* lines 151-156
relu1 == Layer("relu1", "RELU", <<"hidden1">>, "relu1_out")

AddRelu1 ==
    /\ pc = "relu1"
    /\ nn_builder' = AddLayer(nn_builder, relu1)
    /\ pc' = "fc2"
    /\ UNCHANGED <<fs, p, csv_path, df, builder, num_classes, class_labels,
                   spec, outFile, stdout, error>>

\* faulty variant: the width is the number of labels seen in the data (line 82)
Fc2Width_FromData == num_classes

\* line 160, 161, 167: len(class_labels_int)
Fc2Width == Len(class_labels_int)

\* faulty variant: fc2 reads the output of fc1, bypassing the activation
fc2_SkipsRelu ==
    [Layer("fc2", "innerProduct", <<"hidden1">>, "logits") EXCEPT
        !.W = Flatten(Fc2Width, HiddenWidth),
        !.b = Zeros(Fc2Width),
        !.input_channels = HiddenWidth,
        !.output_channels = Fc2Width,
        !.has_bias = TRUE]

\* lines 160-171
fc2 ==
    [Layer("fc2", "innerProduct", <<"relu1_out">>, "logits") EXCEPT
        !.W = Flatten(Fc2Width, HiddenWidth),
        !.b = Zeros(Fc2Width),
        !.input_channels = HiddenWidth,
        !.output_channels = Fc2Width,
        !.has_bias = TRUE]

AddFc2 ==
    /\ pc = "fc2"
    /\ nn_builder' = AddLayer(nn_builder, fc2)
    /\ pc' = "softmax"
    /\ UNCHANGED <<fs, p, csv_path, df, builder, num_classes, class_labels,
                   spec, outFile, stdout, error>>

\* lines 176-180
softmax == Layer("softmax", "softmax", <<"logits">>, "classProbability")

AddSoftmax ==
    /\ pc = "softmax"
    /\ nn_builder' = AddLayer(nn_builder, softmax)
    /\ pc' = "set_class_labels"
    /\ UNCHANGED <<fs, p, csv_path, df, builder, num_classes, class_labels,
                   spec, outFile, stdout, error>>

\* line 182: the label enumeration handed to set_class_labels
ClassLabelsArg == class_labels_int

\* line 182: builder.set_class_labels(labels, predicted_feature_name="classLabel")
\* stores the labels and declares the predicted-label output
SetClassLabels ==
    /\ pc = "set_class_labels"
    /\ nn_builder' =
           [nn_builder EXCEPT
               !.classLabels = ClassLabelsArg,
               !.predictedFeatureName = "classLabel",
               !.output = Append(@, [name |-> "classLabel", type |-> "int64Type",
                                     key |-> ""])]
    /\ pc' = "make_updatable"
    /\ UNCHANGED <<fs, p, csv_path, df, builder, num_classes, class_labels,
                   spec, outFile, stdout, error>>

-----------------------------------------------------------------------------
(* Lines 184-195: make the model updatable, attach the loss *)

\* line 188: the layers named are marked updatable
MarkUpdatable(layers, trainables) ==
    [i \in 1..Len(layers) |->
        IF layers[i].name \in Range(trainables)
        THEN [layers[i] EXCEPT !.isUpdatable = TRUE]
        ELSE layers[i]]

\* line 188: builder.make_updatable(["fc1", "fc2"]); whether the call also
\* sets the spec-level flag is what lines 217-220 re-check
MakeUpdatable ==
    /\ pc = "make_updatable"
    /\ \E flag \in BOOLEAN :
           nn_builder' =
               [nn_builder EXCEPT
                   !.layers = MarkUpdatable(@, <<"fc1", "fc2">>),
                   !.isUpdatable = flag]
    /\ pc' = "set_loss"
    /\ UNCHANGED <<fs, p, csv_path, df, builder, num_classes, class_labels,
                   spec, outFile, stdout, error>>

\* the target the builder may give the loss layer: none, the label field, or
\* a name of its own derived from the loss input
BuilderTargets == {"", "classLabel", "classProbability_true"}

\* a training input the builder may declare for a target name: none, or one
\* of either scalar type
TargetInputs(name) ==
    {<<>>, <<[name |-> name, type |-> "int64Type"]>>,
           <<[name |-> name, type |-> "multiArrayType"]>>}

\* the inference inputs the builder re-declares as training inputs
Copied(k) == [i \in 1..k |-> [name |-> input_features[i].name,
                              type |-> "multiArrayType"]]

\* the training-input lists set_categorical_cross_entropy_loss may leave
BuilderTrainingInputs ==
    {Copied(k) \o a \o c :
        k \in 0..MaxCopied,
        a \in TargetInputs("classLabel"),
        c \in TargetInputs("classProbability_true")}

\* lines 192-195: the loss layer the call describes
lossLayer(target) ==
    [Layer("lossLayer", "categoricalCrossEntropyLossLayer",
           <<"classProbability">>, "") EXCEPT !.target = target]

\* lines 192-195: builder.set_categorical_cross_entropy_loss(name="lossLayer",
\* input="classProbability").  The call stores the loss layer either among the
\* network's layers (where lines 199-204 look for it) or among the update
\* parameters' loss layers, with a target of its choosing, and may declare
\* training inputs.
SetLoss ==
    /\ pc = "set_loss"
    /\ \E where \in {"layers", "lossLayers"}, t \in BuilderTargets,
          ti \in BuilderTrainingInputs :
           nn_builder' =
               [nn_builder EXCEPT
                   !.layers = IF where = "layers"
                              THEN Append(@, lossLayer(t)) ELSE @,
                   !.lossLayers = IF where = "lossLayers"
                                  THEN Append(@, lossLayer(t)) ELSE @,
                   !.trainingInput = @ \o ti]
    /\ pc' = "patch_target"
    /\ UNCHANGED <<fs, p, csv_path, df, builder, num_classes, class_labels,
                   spec, outFile, stdout, error>>

-----------------------------------------------------------------------------
(* Lines 197-235: patch the spec *)

\* the indices of the layers the loop of line 200 stops at
Found(layers, name) == {i \in 1..Len(layers) : layers[i].name = name}

Min(S) == CHOOSE x \in S : \A y \in S : x <= y

\* lines 199-204: the first layer of nn_spec.layers named "lossLayer" gets the
\* target "classLabel"; nothing happens when there is none
PatchLossTarget ==
    /\ pc = "patch_target"
    /\ LET hit == Found(nn_builder.layers, "lossLayer")
       IN  IF hit # {}
           THEN /\ nn_builder' =
                       [nn_builder EXCEPT !.layers[Min(hit)].target = "classLabel"]
                /\ stdout' = print("Set lossLayer target to 'classLabel'", "")
           ELSE UNCHANGED <<nn_builder, stdout>>
    /\ pc' = "set_adam"
    /\ UNCHANGED <<fs, p, csv_path, df, builder, num_classes, class_labels,
                   spec, outFile, error>>

\* lines 207-213
adam_params ==
    [kind |-> "adam", lr |-> "0.01", beta1 |-> "0.9", beta2 |-> "0.999",
     eps |-> "1e-8", batch |-> 32]

\* faulty variant: the optimizer is never set
SetAdam_Missing ==
    /\ pc = "set_adam"
    /\ pc' = "set_epochs"
    /\ UNCHANGED <<fs, p, csv_path, df, builder, num_classes, class_labels,
                   nn_builder, spec, outFile, stdout, error>>

\* line 214
SetAdam ==
    /\ pc = "set_adam"
    /\ nn_builder' = [nn_builder EXCEPT !.optimizer = adam_params]
    /\ pc' = "set_epochs"
    /\ UNCHANGED <<fs, p, csv_path, df, builder, num_classes, class_labels,
                   spec, outFile, stdout, error>>

\* line 215
SetEpochs ==
    /\ pc = "set_epochs"
    /\ nn_builder' = [nn_builder EXCEPT !.epochs = Epochs]
    /\ pc' = "force_updatable"
    /\ UNCHANGED <<fs, p, csv_path, df, builder, num_classes, class_labels,
                   spec, outFile, stdout, error>>

\* faulty variant: the flag the builder left is kept
ForceUpdatable_Skipped ==
    /\ pc = "force_updatable"
    /\ pc' = "training_inputs"
    /\ UNCHANGED <<fs, p, csv_path, df, builder, num_classes, class_labels,
                   nn_builder, spec, outFile, stdout, error>>

\* lines 217-220
ForceUpdatable ==
    /\ pc = "force_updatable"
    /\ IF ~nn_builder.isUpdatable
       THEN /\ stdout' = print("Builder did not set isUpdatable. Forcing it...", "")
            /\ nn_builder' = [nn_builder EXCEPT !.isUpdatable = TRUE]
       ELSE UNCHANGED <<nn_builder, stdout>>
    /\ pc' = "training_inputs"
    /\ UNCHANGED <<fs, p, csv_path, df, builder, num_classes, class_labels,
                   spec, outFile, error>>

\* lines 224-228
found_target(trainingInput) ==
    \E i \in 1..Len(trainingInput) : trainingInput[i].name = "classLabel"

\* lines 222-235
EnsureTrainingInput ==
    /\ pc = "training_inputs"
    /\ IF ~found_target(nn_builder.trainingInput)
       THEN /\ stdout' = print("Target 'classLabel' not found in training inputs. Adding it...", "")
            /\ nn_builder' =
                   [nn_builder EXCEPT
                       !.trainingInput =
                           Append(@, [name |-> "classLabel", type |-> "int64Type"])]
       ELSE UNCHANGED <<nn_builder, stdout>>
    /\ pc' = "return"
    /\ UNCHANGED <<fs, p, csv_path, df, builder, num_classes, class_labels,
                   spec, outFile, error>>

-----------------------------------------------------------------------------
(* Lines 240-251: return the spec and save it *)

\* lines 240-243, 246: the final prints; the builder's spec becomes `spec`
Return ==
    /\ pc = "return"
    /\ stdout' = Append(print("Final check - isUpdatable", nn_builder.isUpdatable),
                        [text |-> "Final check - Training Inputs",
                         arg |-> Names(nn_builder.trainingInput)])
    /\ spec' = nn_builder
    /\ pc' = "save"
    /\ UNCHANGED <<fs, p, csv_path, df, builder, num_classes, class_labels,
                   nn_builder, outFile, error>>

\* lines 247-251: save_spec(spec, output_path) writes the spec
Save ==
    /\ pc = "save"
    /\ outFile' = spec
    /\ stdout' = print("Saved updatable spec to", output_path)
    /\ pc' = "done"
    /\ UNCHANGED <<fs, p, csv_path, df, builder, num_classes, class_labels,
                   nn_builder, spec, error>>

\* line 250: save_spec raises (unwritable path, encoding error); the uncaught
\* exception ends the script before line 251
SaveRaises ==
    /\ pc = "save"
    /\ error' = "SerializationFailure"
    /\ pc' = "Failed"
    /\ UNCHANGED <<fs, p, csv_path, df, builder, num_classes, class_labels,
                   nn_builder, spec, outFile, stdout>>

\* the statements that call into the builder library
BuilderCalls ==
    {"knn_builder", "generate", "concat", "fc1", "relu1", "fc2", "softmax",
     "set_class_labels", "make_updatable", "set_loss", "set_adam", "set_epochs"}

\* a builder call raises (unknown layer name, dimension mismatch, ...): the
\* uncaught exception ends the script
BuilderRaises ==
    /\ pc \in BuilderCalls
    /\ error' = "BuilderError"
    /\ pc' = "Failed"
    /\ UNCHANGED <<fs, p, csv_path, df, builder, num_classes, class_labels,
                   nn_builder, spec, outFile, stdout>>

-----------------------------------------------------------------------------

Next ==
    \/ Probe
    \/ CheckPath
    \/ ReadCsv
    \/ ReadCsvRaises
    \/ Schema
    \/ KnnBuilder
    \/ CountClasses
    \/ NewBuilder
    \/ AddConcat
    \/ AddFc1
    \/ AddRelu1
    \/ AddFc2
    \/ AddSoftmax
    \/ SetClassLabels
    \/ MakeUpdatable
    \/ SetLoss
    \/ PatchLossTarget
    \/ SetAdam
    \/ SetEpochs
    \/ ForceUpdatable
    \/ EnsureTrainingInput
    \/ Return
    \/ Save
    \/ SaveRaises
    \/ BuilderRaises

Spec == Init /\ [][Next]_vars

-----------------------------------------------------------------------------
(* Vocabulary of the properties *)

Printed(text) == \E i \in 1..Len(stdout) : stdout[i].text = text

\* save_spec has been, or is about to be, called with `spec`
HandedToSerializer ==
    \/ pc \in {"save", "done"}
    \/ pc = "Failed" /\ error = "SerializationFailure"

CrossEntropy == "categoricalCrossEntropyLossLayer"

\* the entries of a spec whose kind is the cross-entropy loss layer, wherever
\* they are stored
LossEntries(s) ==
    {l \in Range(s.layers) \cup Range(s.lossLayers) : l.kind = CrossEntropy}

HasTrainingInput(s, name, type) ==
    \E i \in 1..Len(s.trainingInput) :
        /\ s.trainingInput[i].name = name
        /\ s.trainingInput[i].type = type

UpdatableLayers(s) == {l.name : l \in {m \in Range(s.layers) : m.isUpdatable}}

\* the statements after the loss-target patch of lines 199-204
AfterTargetPatch ==
    pc \in {"set_adam", "set_epochs", "force_updatable", "training_inputs",
            "return", "save", "done"}

-----------------------------------------------------------------------------
(* C1 *)

\* C1: in every spec handed to the Serializer, the training-input list holds an
\* entry named as the cross-entropy loss layer's target, of type int64.
C1_TrainingInputNamesLossTarget ==
    HandedToSerializer =>
        /\ LossEntries(spec) # {}
        /\ \A l \in LossEntries(spec) :
               HasTrainingInput(spec, l.target, "int64Type")

-----------------------------------------------------------------------------
(* C2 *)

\* C2: after the loss-layer target patch, the cross-entropy loss layer entry,
\* wherever the builder stored it, has the target "classLabel".
C2_LossTargetIsClassLabel ==
    AfterTargetPatch =>
        /\ LossEntries(nn_builder) # {}
        /\ \A l \in LossEntries(nn_builder) : l.target = "classLabel"

-----------------------------------------------------------------------------
(* C3 *)

\* every line the script prints on a run that reaches save_spec
RoutineOutput ==
    {"Loading data from", "Features", "Target", "Generating updatable model...",
     "Set lossLayer target to 'classLabel'",
     "Builder did not set isUpdatable. Forcing it...",
     "Target 'classLabel' not found in training inputs. Adding it...",
     "Final check - isUpdatable", "Final check - Training Inputs",
     "Saved updatable spec to"}

\* a line that reports the missing loss layer
LossLayerWarning == \E i \in 1..Len(stdout) : stdout[i].text \notin RoutineOutput

\* C3: when the target patch finds no loss layer to patch, the run fails or
\* warns; it never goes on silently to save the unpatched spec.
C3_MissingLossLayerIsReported ==
    (pc = "done" /\ Found(outFile.layers, "lossLayer") = {}) =>
        LossLayerWarning

-----------------------------------------------------------------------------
(* C4 *)

\* C4: in every spec handed to the Serializer isUpdatable is true iff some layer
\* is updatable; fc1 and fc2 always are, so the flag is true whatever the
\* builder left in it, and so it is in the saved artifact.
C4_UpdatableFlagMatchesLayers ==
    /\ HandedToSerializer =>
           /\ spec.isUpdatable <=> (UpdatableLayers(spec) # {})
           /\ UpdatableLayers(spec) = {"fc1", "fc2"}
           /\ spec.isUpdatable
    /\ pc = "done" => outFile.isUpdatable

\* a run where the builder left the flag false is saved
C4_Witness ==
    /\ pc = "done"
    /\ Printed("Builder did not set isUpdatable. Forcing it...")
    /\ outFile.isUpdatable
    /\ UpdatableLayers(outFile) = {"fc1", "fc2"}

-----------------------------------------------------------------------------
(* C5 *)

\* the statements after set_class_labels of line 182
AfterClassLabels ==
    AfterTargetPatch \/ pc \in {"make_updatable", "set_loss", "patch_target"}

LayerNamed(s, name) == CHOOSE l \in Range(s.layers) : l.name = name

\* C5: whatever labels the vibe column holds, the class labels bound to the
\* classifier are exactly 0..7 and fc2 is 8 wide; the counts taken from the
\* data (num_classes, class_labels) decide neither.
C5_LabelsAndWidthFixed ==
    AfterClassLabels =>
        /\ nn_builder.classLabels = <<0, 1, 2, 3, 4, 5, 6, 7>>
        /\ Found(nn_builder.layers, "fc2") # {}
        /\ LayerNamed(nn_builder, "fc2").output_channels = NumVibe
        /\ LayerNamed(nn_builder, "fc2").b = NumVibe

\* the dataset that holds only the labels 0, 2 and 5 is saved with 8 classes
C5_Witness ==
    /\ pc = "done"
    /\ df.vibe = {0, 2, 5}
    /\ num_classes = 3
    /\ class_labels = <<"0", "2", "5">>
    /\ Len(outFile.classLabels) = NumVibe
    /\ LayerNamed(outFile, "fc2").output_channels = NumVibe

-----------------------------------------------------------------------------
(* C6 *)

\* C6: the candidates are probed in order and the first existing one is the
\* path loaded; with no candidate on disk the run ends in DatasetNotFound
\* before any builder statement and without writing the output file.
C6_FirstExistingOrNotFound ==
    /\ csv_path # NoPath =>
           /\ csv_path \in fs
           /\ \A j \in 1..(csv_path - 1) : j \notin fs
    /\ \A i \in 1..Len(stdout) :
           stdout[i].text = "Loading data from" =>
               stdout[i].arg = possible_paths[Min(fs)]
    /\ fs = {} =>
           /\ pc \in {"probe", "check_path", "Failed"}
           /\ pc = "Failed" => error = "DatasetNotFound"
           /\ df = None /\ builder = None /\ nn_builder = None
           /\ outFile = NoFile

\* neither candidate exists, both were probed, the run failed
C6_Witness ==
    /\ fs = {}
    /\ p = Len(possible_paths) + 1
    /\ pc = "Failed"
    /\ error = "DatasetNotFound"
    /\ Printed("Error: Could not find dataset")

-----------------------------------------------------------------------------
(* C7 *)

\* the two invariants of a ModelSpec
SelfConsistent(s) ==
    /\ s.isUpdatable <=> (UpdatableLayers(s) # {})
    /\ LossEntries(s) # {}
    /\ \A l \in LossEntries(s) : HasTrainingInput(s, l.target, "int64Type")

\* C7: either the output file is written with a valid, self-consistent spec or
\* nothing is written; a run that fails leaves no output file.
C7_ValidSpecOrNothing ==
    /\ pc = "done" => SelfConsistent(outFile)
    /\ pc # "done" => outFile = NoFile

-----------------------------------------------------------------------------
(* C8 *)

TargetPatched == Printed("Set lossLayer target to 'classLabel'")
FlagPatched == Printed("Builder did not set isUpdatable. Forcing it...")
TrainingInputPatched ==
    Printed("Target 'classLabel' not found in training inputs. Adding it...")

\* make_updatable and the loss attachment have run
MarkedAndLossAttached ==
    /\ nn_builder # None
    /\ UpdatableLayers(nn_builder) = {"fc1", "fc2"}
    /\ LossEntries(nn_builder) # {}

\* every UpdatabilityConfigurator action has run
ConfiguratorDone ==
    /\ MarkedAndLossAttached
    /\ nn_builder.optimizer = adam_params
    /\ nn_builder.epochs = Epochs

\* the inference graph and the class labels are complete
GraphBuilt ==
    /\ nn_builder # None
    /\ Names(nn_builder.layers) \in
           {<<"concat_inputs", "fc1", "relu1", "fc2", "softmax">>,
            <<"concat_inputs", "fc1", "relu1", "fc2", "softmax", "lossLayer">>}
    /\ nn_builder.classLabels # <<>>

\* C8 as stated: every UpdatabilityConfigurator action completes before the
\* first SpecPatcher mutation, and every SpecPatcher mutation before save.
C8_ConfiguredBeforePatched ==
    /\ (TargetPatched \/ FlagPatched \/ TrainingInputPatched) => ConfiguratorDone
    /\ pc \in {"save", "done"} =>
           /\ ConfiguratorDone
           /\ nn_builder.isUpdatable
           /\ found_target(nn_builder.trainingInput)

\* the place of a statement in the script
Rank(l) ==
    CASE l = "probe" -> 1 [] l = "check_path" -> 2 [] l = "read_csv" -> 3
      [] l = "schema" -> 4 [] l = "knn_builder" -> 5 [] l = "num_classes" -> 6
      [] l = "generate" -> 7 [] l = "concat" -> 8 [] l = "fc1" -> 9
      [] l = "relu1" -> 10 [] l = "fc2" -> 11 [] l = "softmax" -> 12
      [] l = "set_class_labels" -> 13 [] l = "make_updatable" -> 14
      [] l = "set_loss" -> 15 [] l = "patch_target" -> 16 [] l = "set_adam" -> 17
      [] l = "set_epochs" -> 18 [] l = "force_updatable" -> 19
      [] l = "training_inputs" -> 20 [] l = "return" -> 21 [] l = "save" -> 22
      [] l = "done" -> 23 [] l = "Failed" -> 24

\* the run moves forward only: a statement is never run again, the probe loop
\* aside, which moves on to the next candidate
Forward ==
    \/ Rank(pc') > Rank(pc)
    \/ pc = "probe" /\ pc' = "probe" /\ p' > p

\* C8, amended: the run moves forward only; the graph is built before
\* make_updatable; the loss-target patch runs after make_updatable and the
\* loss attachment but before the optimizer and the epochs are set; the flag
\* and training-input patches run after every Configurator action; every
\* patch has run before save.
C8_StatementOrder ==
    /\ [](/\ (nn_builder # None /\ UpdatableLayers(nn_builder) # {}) => GraphBuilt
          /\ TargetPatched => MarkedAndLossAttached
          /\ (FlagPatched \/ TrainingInputPatched) => ConfiguratorDone
          /\ (nn_builder # None /\ nn_builder.optimizer # None) =>
                 pc \notin {"set_loss", "patch_target", "set_adam"}
          /\ pc \in {"save", "done"} =>
                 /\ ConfiguratorDone
                 /\ nn_builder.isUpdatable
                 /\ found_target(nn_builder.trainingInput)
                 /\ spec = nn_builder)
    /\ [][Forward]_vars

\* a run in which all three patches changed the spec, and it was saved
C8_Witness ==
    /\ pc = "done"
    /\ TargetPatched /\ FlagPatched /\ TrainingInputPatched
    /\ outFile.optimizer = adam_params

-----------------------------------------------------------------------------
(* C9 *)

\* C9: the spec written to the output file carries the author, license and
\* description that the script set.
C9_SavedSpecCarriesMetadata ==
    pc = "done" =>
        /\ outFile.author = "Vibe Assistant"
        /\ outFile.license = "MIT"
        /\ outFile.description = "Updatable k-NN Classifier for Vibe Prediction"

-----------------------------------------------------------------------------
(* C10 *)

\* the statements after the softmax layer was added
AfterGraph == AfterClassLabels \/ pc = "set_class_labels"

RECURSIVE SumShapes(_)
SumShapes(s) == IF s = <<>> THEN 0 ELSE Head(s).shape + SumShapes(Tail(s))

\* the declared inputs a layer takes, in the order it takes them
DeclaredInputs(s, layer) ==
    [i \in 1..Len(layer.input) |->
        CHOOSE f \in Range(s.input) : f.name = layer.input[i]]

Dense(l, in, out) ==
    /\ l.kind = "innerProduct"
    /\ l.input_channels = in /\ l.output_channels = out
    /\ l.W = out * in
    /\ l.has_bias /\ l.b = out

====
